---- MODULE Spec2Model ----
(***************************************************************************)
(* NSE MACD scanner (src/app_simple_macd.py): the scan orchestrator, the   *)
(* crossover detector, the alert ledger and the Telegram throttle.         *)
(*                                                                         *)
(* Time is counted in whole minutes.  get_ist_time() reads `clock`; a      *)
(* fetch, and with it every loop iteration, moves the clock forward, so    *)
(* two readings taken in different iterations are never equal.             *)
(* An alert key f"{symbol}_{timestamp}" is the pair <<symbol, timestamp>>. *)
(* Event records keep the fields the ledger and the notifier read          *)
(* (symbol, timestamp, timeframe); type, previous_type, current_signal,    *)
(* macd, signal and price are only displayed and are left out.             *)
(*                                                                         *)
(* Spec is a session with its triggers and toggles; SpecScan is one scan   *)
(* on every series of the grid; SpecTimer is the auto-refresh loop minute  *)
(* by minute; SpecCalc is the indicator engine and the 4-hour aggregation  *)
(* called on their own with arguments from bounded sets.                   *)
(***************************************************************************)
EXTENDS Integers, Sequences, FiniteSets, TLC

\* ---------------------------------------------------------------- bounds
\* Last minute of the modelled session (two sends 45 minutes apart fit).
MaxClock == 49
\* MACD / signal values fed to the classifier lie in -MaxVal..MaxVal.
MaxVal == 5
\* Scans started in the modelled session.
MaxScans == 2
\* Longest series handed to calculate_ema on its own.
MaxLen == 3
\* Longest close-price series handed to calculate_macd on its own.
MaxSeries == 31
\* Hourly bars lie in the hours 0..MaxHour; at most MaxHourly of them.
MaxHour == 9
MaxHourly == 3

\* ------------------------------------------------------ program constants
\* st.session_state.scan_interval
ScanInterval == 15
\* Telegram cooldown, minutes
Cooldown == 45
\* Minimum number of bars
MinBars == 30
\* Signal line EMA period
SignalPeriod == 9

\* The instrument universe, cut down to two symbols.
STOCK_SYMBOLS == <<"A.NS", "B.NS">>

total_stocks == Len(STOCK_SYMBOLS)

\* symbol.replace('.NS', '')
StripNS(symbol) ==
    CASE symbol = "A.NS" -> "A"
      [] symbol = "B.NS" -> "B"

Timeframes == {"4h", "1d"}

bearish_signals == {"SELL", "WEAK SELL", "STRONG SELL"}
bullish_signals == {"BUY", "WEAK BUY", "STRONG BUY"}

VARIABLES
    clock,                    \* wall clock, minutes
    pc,                       \* position of the script run
    idx,                      \* instruments of the current timeframe scan already visited
    trigger,                  \* "manual" (Scan Now button) or "auto" (auto-refresh)
    current_time,             \* main(): current_time of the auto-refresh block
    scans,                    \* history: scans started so far
    prev_signal,              \* scan_crossovers locals: the labels last compared
    current_signal,
    crossovers_4h,            \* scan_stocks_now locals
    crossovers_1d,
    new_alerts_4h,
    new_alerts_1d,
    returned,                 \* return value of scan_stocks_now, <<>> while it runs
    last_scan_time,           \* st.session_state
    crossover_data_4h,
    crossover_data_1d,
    auto_refresh,
    previous_alerts,
    notification_enabled,
    last_telegram_sent_time,
    credentials,              \* TELEGRAM_BOT_TOKEN and TELEGRAM_CHAT_ID both set
    notify_branch,            \* branch this scan took at the notification step
    cooldown_remaining,       \* minutes shown by the cooldown message of this scan
    posted,                   \* requests.post payloads of this scan, in order
    send_log,                 \* history: clock of every post answered 200
    ledger_before,            \* history: previous_alerts as the last dedup read it
    visits,                   \* history: loop iterations per timeframe and symbol
    skipped,                  \* history: instruments skipped in the scan in progress
    writes,                   \* history: assignments of this scan to the ledger and the throttle
    auto_starts,              \* history: clock at the start of every auto-refresh scan
    call,                     \* a function of the indicator engine and its arguments
    result                    \* what that call returned

\* A call of the indicator engine taken on its own.
calc == <<call, result>>

\* The scanner: script position, locals, session state, history.
scanner == <<clock, pc, idx, trigger, current_time, scans, prev_signal,
             current_signal, crossovers_4h, crossovers_1d,
             new_alerts_4h, new_alerts_1d, returned, last_scan_time,
             crossover_data_4h, crossover_data_1d, auto_refresh, previous_alerts,
             notification_enabled, last_telegram_sent_time, credentials,
             notify_branch, cooldown_remaining, posted, send_log, ledger_before,
             visits, skipped, writes, auto_starts>>

vars == <<scanner, calc>>

session == <<last_scan_time, crossover_data_4h, crossover_data_1d, auto_refresh,
             previous_alerts, notification_enabled, last_telegram_sent_time>>

scan_locals == <<prev_signal, current_signal, crossovers_4h, crossovers_1d,
                 new_alerts_4h, new_alerts_1d>>

\* No loop iteration yet.
NoVisits == [tf \in Timeframes |-> [s \in 1..total_stocks |-> 0]]

scan_report == <<returned, notify_branch, cooldown_remaining, posted, ledger_before,
                 writes>>

\* Nothing assigned yet.
NoWrites == [ledger |-> 0, throttle |-> 0]

\* What a script run leaves behind is the session state: its locals, and the
\* history of the scan it made, start afresh.
FreshLocals ==
    /\ idx' = 0
    /\ prev_signal' = "unset"
    /\ current_signal' = "unset"
    /\ crossovers_4h' = <<>>
    /\ crossovers_1d' = <<>>
    /\ new_alerts_4h' = <<>>
    /\ new_alerts_1d' = <<>>
    /\ returned' = <<>>
    /\ notify_branch' = "none"
    /\ cooldown_remaining' = 0
    /\ posted' = <<>>
    /\ ledger_before' = {}
    /\ visits' = NoVisits
    /\ skipped' = {}
    /\ writes' = NoWrites

\* The script run ends.
EndRun ==
    /\ pc' = "idle"
    /\ trigger' = "none"
    /\ current_time' = 0
    /\ FreshLocals

\* ------------------------------------------------------------ indicator
\* One step of calculate_ema: data[i] * k + ema[i-1] * (1 - k), k = 2/(period+1),
\* multiplied by (period + 1) to stay in the integers.
EmaStepScaled(value, prev_ema, period) == 2 * value + (period - 1) * prev_ema

\* Variant: the plain BUY test comes before the WEAK BUY test.
Classify_BuyBeforeWeakBuy(macd_val, signal_val) ==
    IF macd_val > signal_val /\ macd_val > 0 /\ signal_val > 0 THEN "STRONG BUY"
    ELSE IF macd_val < signal_val /\ macd_val < 0 /\ signal_val < 0 THEN "STRONG SELL"
    ELSE IF macd_val > signal_val THEN "BUY"
    ELSE IF macd_val > signal_val /\ macd_val < 0 THEN "WEAK BUY"
    ELSE IF macd_val < signal_val /\ macd_val > 0 THEN "WEAK SELL"
    ELSE IF macd_val < signal_val THEN "SELL"
    ELSE "NO SIGNAL"

\* Variant: the STRONG SELL test asks for a positive signal value.
Classify_StrongSellSign(macd_val, signal_val) ==
    IF macd_val > signal_val /\ macd_val > 0 /\ signal_val > 0 THEN "STRONG BUY"
    ELSE IF macd_val < signal_val /\ macd_val < 0 /\ signal_val > 0 THEN "STRONG SELL"
    ELSE IF macd_val > signal_val /\ macd_val < 0 THEN "WEAK BUY"
    ELSE IF macd_val < signal_val /\ macd_val > 0 THEN "WEAK SELL"
    ELSE IF macd_val > signal_val THEN "BUY"
    ELSE IF macd_val < signal_val THEN "SELL"
    ELSE "NO SIGNAL"

\* The label of one bar.
Classify(macd_val, signal_val) ==
    IF macd_val > signal_val /\ macd_val > 0 /\ signal_val > 0 THEN "STRONG BUY"
    ELSE IF macd_val < signal_val /\ macd_val < 0 /\ signal_val < 0 THEN "STRONG SELL"
    ELSE IF macd_val > signal_val /\ macd_val < 0 THEN "WEAK BUY"
    ELSE IF macd_val < signal_val /\ macd_val > 0 THEN "WEAK SELL"
    ELSE IF macd_val > signal_val THEN "BUY"
    ELSE IF macd_val < signal_val THEN "SELL"
    ELSE "NO SIGNAL"

\* ---- the indicator engine on whole series
\* The code computes in binary floating point; the model computes the same
\* expressions exactly, on fractions <<numerator, denominator>> in lowest
\* terms with a positive denominator.
Abs(x) == IF x < 0 THEN 0 - x ELSE x

RECURSIVE Gcd(_, _)
Gcd(a, b) == IF b = 0 THEN a ELSE Gcd(b, a % b)

\* n / d in lowest terms, d > 0.
Frac(n, d) == LET g == Gcd(Abs(n), d) IN <<n \div g, d \div g>>

\* A whole number as a fraction.
Whole(x) == <<x, 1>>

FracAdd(a, b) ==
    LET g == Gcd(a[2], b[2])
    IN Frac(a[1] * (b[2] \div g) + b[1] * (a[2] \div g), (a[2] \div g) * b[2])

FracSub(a, b) == FracAdd(a, <<0 - b[1], b[2]>>)

FracMul(a, b) ==
    LET g1 == Gcd(Abs(a[1]), b[2])
        g2 == Gcd(Abs(b[1]), a[2])
    IN Frac((a[1] \div g1) * (b[1] \div g2), (a[2] \div g2) * (b[2] \div g1))

\* Whole series as fractions.
Wholes(seq) == [i \in 1..Len(seq) |-> Whole(seq[i])]

\* The loop of calculate_ema from index i on: each turn appends
\* data[i] * k + ema_array[i - 1] * (1 - k).
RECURSIVE EmaLoop(_, _, _, _)
EmaLoop(data, k, ema_array, i) ==
    IF i > Len(data) THEN ema_array
    ELSE EmaLoop(data, k,
                 Append(ema_array,
                        FracAdd(FracMul(data[i], k),
                                FracMul(ema_array[i - 1], FracSub(Whole(1), k)))),
                 i + 1)

\* Variant: the series starts at zero instead of at its first element.
calculate_ema_ZeroSeed(data, period) ==
    IF Len(data) = 0 THEN <<>>
    ELSE EmaLoop(data, Frac(2, period + 1), <<Whole(0)>>, 2)

\* calculate_ema(data, period), period >= 0.
calculate_ema(data, period) ==
    IF Len(data) = 0 THEN <<>>
    ELSE EmaLoop(data, Frac(2, period + 1), <<data[1]>>, 2)

\* EMA periods of the MACD line.
FastPeriod == 12
SlowPeriod == 26

\* The label of a bar whose MACD and signal values are fractions: both are
\* brought to their common denominator, which keeps signs and order.
ClassifyFrac(macd_val, signal_val) ==
    LET g == Gcd(macd_val[2], signal_val[2])
    IN Classify(macd_val[1] * (signal_val[2] \div g),
                signal_val[1] * (macd_val[2] \div g))

\* Variant: the series must be longer than 30 bars.
calculate_macd_Over30(close_prices) ==
    IF Len(close_prices) <= MinBars THEN [ok |-> FALSE]
    ELSE LET fast_ema == calculate_ema(close_prices, FastPeriod)
             slow_ema == calculate_ema(close_prices, SlowPeriod)
             macd_line == [i \in 1..Len(fast_ema) |-> FracSub(fast_ema[i], slow_ema[i])]
             signal_line == calculate_ema(macd_line, SignalPeriod)
         IN [ok |-> TRUE,
             macd |-> macd_line[Len(macd_line)],
             signal |-> signal_line[Len(signal_line)],
             histogram |-> FracSub(macd_line[Len(macd_line)],
                                   signal_line[Len(signal_line)]),
             signals |-> [i \in 1..Len(macd_line) |->
                             ClassifyFrac(macd_line[i], signal_line[i])]]

\* calculate_macd(close_prices): no result ([ok |-> FALSE] for None) under 30
\* prices, else the last MACD, signal and histogram values and the labels.
calculate_macd(close_prices) ==
    IF Len(close_prices) < MinBars THEN [ok |-> FALSE]
    ELSE LET fast_ema == calculate_ema(close_prices, FastPeriod)
             slow_ema == calculate_ema(close_prices, SlowPeriod)
             macd_line == [i \in 1..Len(fast_ema) |-> FracSub(fast_ema[i], slow_ema[i])]
             signal_line == calculate_ema(macd_line, SignalPeriod)
         IN [ok |-> TRUE,
             macd |-> macd_line[Len(macd_line)],
             signal |-> signal_line[Len(signal_line)],
             histogram |-> FracSub(macd_line[Len(macd_line)],
                                   signal_line[Len(signal_line)]),
             signals |-> [i \in 1..Len(macd_line) |->
                             ClassifyFrac(macd_line[i], signal_line[i])]]

\* ---- the 4-hour bars
\* The 4-hour bucket an hourly bar falls in.
BucketOf(hour) == hour \div 4

\* The bars of a bucket, in time order.
InBucket(hist, b) == SelectSeq(hist, LAMBDA r : BucketOf(r.hour) = b)

MaxOf(S) == CHOOSE x \in S : \A y \in S : y <= x
MinOf(S) == CHOOSE x \in S : \A y \in S : x <= y

RECURSIVE SumOf(_)
SumOf(seq) == IF seq = <<>> THEN 0 ELSE Head(seq) + SumOf(Tail(seq))

\* Variant: the close of a bucket is its first bar's close.
Aggregate_CloseFirst(bars, b) ==
    [hour |-> 4 * b,
     Open |-> bars[1].Open,
     High |-> MaxOf({bars[i].High : i \in 1..Len(bars)}),
     Low |-> MinOf({bars[i].Low : i \in 1..Len(bars)}),
     Close |-> bars[1].Close,
     Volume |-> SumOf([i \in 1..Len(bars) |-> bars[i].Volume])]

\* .agg({'Open': 'first', 'High': 'max', 'Low': 'min', 'Close': 'last',
\*       'Volume': 'sum'}) on the bars of bucket b.
Aggregate(bars, b) ==
    [hour |-> 4 * b,
     Open |-> bars[1].Open,
     High |-> MaxOf({bars[i].High : i \in 1..Len(bars)}),
     Low |-> MinOf({bars[i].Low : i \in 1..Len(bars)}),
     Close |-> bars[Len(bars)].Close,
     Volume |-> SumOf([i \in 1..Len(bars) |-> bars[i].Volume])]

\* resample('4h') ... .dropna(): the buckets from b to last, in order; a
\* bucket without bars has no open, high, low or close and is dropped.
RECURSIVE Resample4h(_, _, _)
Resample4h(hist, b, last) ==
    IF b > last THEN <<>>
    ELSE (IF InBucket(hist, b) = <<>> THEN <<>>
          ELSE << Aggregate(InBucket(hist, b), b) >>)
         \o Resample4h(hist, b + 1, last)

\* The bars scan_crossovers works on: the provider's hourly bars resampled
\* for '4h' (unless there are none), the provider's daily bars as they are.
History(timeframe, bars) ==
    IF timeframe = "4h"
    THEN IF bars = <<>> THEN bars
         ELSE Resample4h(bars, BucketOf(bars[1].hour), BucketOf(bars[Len(bars)].hour))
    ELSE bars

\* ---- the series of a scan
\* What the Market Data Provider hands back for one instrument: either the
\* call raises, or a series of n bars whose MACD line ends in macd_prev,
\* macd_curr and whose signal line has signal_prev at the second-to-last bar.
Vals == (0 - MaxVal)..MaxVal

FailedFetches ==
    [raises : {TRUE}, n : {0}, macd_prev : {0}, signal_prev : {0}, macd_curr : {0}]
    \cup
    [raises : {FALSE}, n : {0, MinBars - 1}, macd_prev : Vals, signal_prev : {0 - 1},
     macd_curr : {1}]

Fetches ==
    FailedFetches
    \cup
    [raises : {FALSE}, n : {MinBars}, macd_prev : Vals, signal_prev : Vals,
     macd_curr : Vals]

\* The fetches of the session specification: one series that crosses (SELL
\* to STRONG BUY) and one that does not.
SessionFetches ==
    [raises : {FALSE}, n : {MinBars}, macd_prev : {0 - 1}, signal_prev : {0},
     macd_curr : {0 - 1, 1}]

\* hist.empty or len(hist) < 30, and calculate_macd's own length test.
TooShort(n) == n = 0 \/ n < MinBars

\* macd_data['signals'][-2]: second-to-last label.
PrevSignal(f) ==
    IF f.n > 1 THEN Classify(f.macd_prev, f.signal_prev) ELSE "NO SIGNAL"

\* macd_data['signals'][-1]: the signal line's last value is one EMA step
\* from signal_prev; both arguments carry the factor (SignalPeriod + 1).
CurrentSignal(f) ==
    IF f.n > 0
    THEN Classify((SignalPeriod + 1) * f.macd_curr,
                  EmaStepScaled(f.macd_curr, f.signal_prev, SignalPeriod))
    ELSE "NO SIGNAL"

\* Variant: a bar without a signal counts as bearish.
IsCrossover_NoSignalBearish(prev, curr) ==
    /\ prev \in bearish_signals \cup {"NO SIGNAL"}
    /\ curr \in bullish_signals

\* The test that guards crossovers.append.
IsCrossover(prev, curr) ==
    prev \in bearish_signals /\ curr \in bullish_signals

\* An instrument is skipped: except -> continue, or the length test -> continue.
IsSkipped(f) == f.raises \/ TooShort(f.n)

\* Variant: a fetch that raises ends the loop.
NextIdx_Break(i, f) == IF f.raises THEN Len(STOCK_SYMBOLS) ELSE i + 1

\* The loop index after an iteration: `continue` goes on with the next symbol.
NextIdx(i, f) == i + 1

\* The body of the scan_crossovers loop for one symbol: the events it appends.
ScanSymbol(symbol, timeframe, f, now) ==
    IF IsSkipped(f) THEN <<>>
    ELSE IF IsCrossover(PrevSignal(f), CurrentSignal(f))
         THEN << [symbol |-> StripNS(symbol),
                  timestamp |-> now,
                  timeframe |-> timeframe] >>
         ELSE <<>>

\* ------------------------------------------------------------ ledger
AlertKey(c) == <<c.symbol, c.timestamp>>

AlertKeys(crossovers) == {AlertKey(crossovers[i]) : i \in 1..Len(crossovers)}

\* Variant: an event is old when its symbol has a key in the ledger.
RECURSIVE FilterNew_BySymbol(_, _)
FilterNew_BySymbol(crossovers, ledger) ==
    IF crossovers = <<>> THEN <<>>
    ELSE LET rest == FilterNew_BySymbol(Tail(crossovers), ledger)
         IN IF \A k \in ledger : k[1] # Head(crossovers).symbol
            THEN <<Head(crossovers)>> \o rest
            ELSE rest

\* [c for c in crossovers if key(c) not in previous_alerts]
RECURSIVE FilterNew(_, _)
FilterNew(crossovers, ledger) ==
    IF crossovers = <<>> THEN <<>>
    ELSE LET rest == FilterNew(Tail(crossovers), ledger)
         IN IF AlertKey(Head(crossovers)) \notin ledger
            THEN <<Head(crossovers)>> \o rest
            ELSE rest

\* Variant: the ledger accumulates.
NextLedger_Union(old, alerts_4h, alerts_1d) == old \cup alerts_4h \cup alerts_1d

\* The ledger written at the end of a scan.
NextLedger(old, alerts_4h, alerts_1d) == alerts_4h \cup alerts_1d

\* Variant: the checkbox is not consulted.
ShouldNotify_IgnoreToggle(all_new_alerts, enabled) == all_new_alerts # <<>>

\* The test that opens the notification block.
ShouldNotify(all_new_alerts, enabled) == all_new_alerts # <<>> /\ enabled

\* Variant: strictly more than the cooldown.
CooldownOver_Strict(time_since_last_telegram) == time_since_last_telegram > Cooldown

\* The cooldown test of scan_stocks_now.
CooldownOver(time_since_last_telegram) == time_since_last_telegram >= Cooldown

\* a['symbol'].strip().upper(): the scanner's symbols are upper case and
\* carry no blanks.
StripUpper(sym) ==
    CASE sym = "A" -> "A"
      [] sym = "B" -> "B"

\* extract_symbols: the symbols of a batch.
extract_symbols(alerts) == [i \in 1..Len(alerts) |-> StripUpper(alerts[i].symbol)]

\* One line of the message per listed symbol.
Bullets(symbols) == [i \in 1..Len(symbols) |-> <<"bullet", symbols[i]>>]

\* message_lines: title and scan time, then for each timeframe that has
\* symbols its header, its symbols and an empty line.
message_lines(alerts_4h_symbols, alerts_1d_symbols) ==
    << <<"title", "MACD Crossover Summary">>, <<"scanned", "">> >>
    \o (IF alerts_4h_symbols # <<>>
        THEN << <<"header", "4H">> >> \o Bullets(alerts_4h_symbols) \o << <<"blank", "">> >>
        ELSE <<>>)
    \o (IF alerts_1d_symbols # <<>>
        THEN << <<"header", "1D">> >> \o Bullets(alerts_1d_symbols) \o << <<"blank", "">> >>
        ELSE <<>>)

\* A button: its caption and its chart link, both built from the symbol.
Button(sym) == [text |-> sym, url |-> <<"NSE", sym>>]

\* Variant: a row is kept only when it is full.
RECURSIVE inline_keyboard_FullRowsOnly(_)
inline_keyboard_FullRowsOnly(all_symbols) ==
    IF Len(all_symbols) < 2 THEN <<>>
    ELSE << <<Button(all_symbols[1]), Button(all_symbols[2])>> >>
         \o inline_keyboard_FullRowsOnly(SubSeq(all_symbols, 3, Len(all_symbols)))

\* The buttons, two per row; a last row of one button is kept.
RECURSIVE inline_keyboard(_)
inline_keyboard(all_symbols) ==
    IF Len(all_symbols) = 0 THEN <<>>
    ELSE IF Len(all_symbols) = 1 THEN << <<Button(all_symbols[1])>> >>
    ELSE << <<Button(all_symbols[1]), Button(all_symbols[2])>> >>
         \o inline_keyboard(SubSeq(all_symbols, 3, Len(all_symbols)))

\* The body of the sendMessage request.
payload(alerts_4h, alerts_1d) ==
    [text |-> message_lines(extract_symbols(alerts_4h), extract_symbols(alerts_1d)),
     inline_keyboard |-> inline_keyboard(extract_symbols(alerts_4h)
                                         \o extract_symbols(alerts_1d))]

NotifierAnswers == {"200", "error", "exception"}

\* Variant: no credentials test.
send_telegram_alerts_NoCheck(alerts_4h, alerts_1d, answer) ==
    [ret |-> IF answer = "200" THEN "True" ELSE "False",
     posts |-> << payload(alerts_4h, alerts_1d) >>]

\* send_telegram_alerts: its return value ("True", "False" or "None") and
\* the payloads it posted.
send_telegram_alerts(alerts_4h, alerts_1d, answer) ==
    IF ~credentials
    THEN [ret |-> "None", posts |-> <<>>]
    ELSE [ret |-> IF answer = "200" THEN "True" ELSE "False",
          posts |-> << payload(alerts_4h, alerts_1d) >>]

\* Variant: the throttle restarts on every attempt that reached Telegram.
ThrottleAfterSend_OnAttempt(ret, now, old) == IF ret # "None" THEN now ELSE old

\* Variant: the throttle is never restarted.
ThrottleAfterSend_Never(ret, now, old) == old

\* Variant: only an explicit False counts as a failure.
SendSucceeded_NotFalse(ret) == ret # "False"

\* `if send_telegram_alerts(...)`: None and False are both falsy.
SendSucceeded(ret) == ret = "True"

\* The new value of last_telegram_sent_time after a send returned ret.
ThrottleAfterSend(ret, now, old) == IF SendSucceeded(ret) THEN now ELSE old

\* ------------------------------------------------------------ initial state
\* Variant: the throttle starts at the time of the first run.
InitialLastSent_Now(now) == now

\* get_ist_time() - timedelta(minutes=46)
InitialLastSent(now) == now - 46

SessionInit ==
    /\ clock = 0
    /\ pc = "idle"
    /\ idx = 0
    /\ trigger = "none"
    /\ current_time = 0
    /\ scans = 0
    /\ prev_signal = "unset"
    /\ current_signal = "unset"
    /\ crossovers_4h = <<>>
    /\ crossovers_1d = <<>>
    /\ new_alerts_4h = <<>>
    /\ new_alerts_1d = <<>>
    /\ returned = <<>>
    /\ last_scan_time = 0 - (ScanInterval + 1)
    /\ crossover_data_4h = <<>>
    /\ crossover_data_1d = <<>>
    /\ auto_refresh = FALSE
    /\ previous_alerts = {}
    /\ notification_enabled = TRUE
    /\ last_telegram_sent_time = InitialLastSent(0)
    /\ credentials \in BOOLEAN
    /\ notify_branch = "none"
    /\ cooldown_remaining = 0
    /\ posted = <<>>
    /\ send_log = <<>>
    /\ ledger_before = {}
    /\ visits = NoVisits
    /\ skipped = {}
    /\ writes = NoWrites
    /\ auto_starts = <<>>

\* The app starts: session state as initialised, no indicator call singled out.
Init ==
    /\ SessionInit
    /\ call = [fn |-> "none"]
    /\ result = [done |-> FALSE]

\* ------------------------------------------------------------ actions
\* Minutes the session may sit between two script runs.
WaitSteps == {40, 41}

\* A scan started now ends within the modelled session.
HorizonOK == clock + 2 * total_stocks <= MaxClock /\ scans < MaxScans

\* Time passes while no script run is in progress.
Tick ==
    /\ pc = "idle"
    /\ scans < MaxScans
    /\ \E d \in WaitSteps :
          /\ clock + d <= MaxClock
          /\ clock' = clock + d
    /\ UNCHANGED <<pc, idx, trigger, current_time, scans, scan_locals, scan_report,
                   session, credentials, calc, auto_starts, send_log, visits, skipped>>

\* Entry of scan_stocks_now: first timeframe, fresh locals.
BeginScan(trig) ==
    /\ pc' = "scan_4h"
    /\ trigger' = trig
    /\ scans' = scans + 1
    /\ auto_starts' = IF trig = "auto" THEN Append(auto_starts, clock) ELSE auto_starts
    /\ FreshLocals

\* "Scan Now" pressed: the script run starts with a manual scan.
ClickScanNow ==
    /\ pc = "idle"
    /\ HorizonOK
    /\ BeginScan("manual")
    /\ UNCHANGED <<clock, current_time, session, credentials, calc, send_log>>

\* Variant: strictly more than 15 minutes.
ScanDue_Strict(time_since_last_scan) == time_since_last_scan > ScanInterval

\* The test of the auto-refresh block.
ScanDue(time_since_last_scan) == time_since_last_scan >= ScanInterval

\* The sidebar checkboxes and the auto-refresh block of main(), with the
\* checkboxes showing ar and ne.
SidebarAndAutoRefresh(ar, ne) ==
    /\ auto_refresh' = ar
    /\ notification_enabled' = ne
    /\ IF ar /\ ScanDue(clock - last_scan_time)
       THEN /\ current_time' = clock
            /\ BeginScan("auto")
       ELSE /\ EndRun
            /\ UNCHANGED <<scans, auto_starts>>
    /\ UNCHANGED <<clock, last_scan_time, crossover_data_4h, crossover_data_1d,
                   previous_alerts, last_telegram_sent_time, credentials, calc, send_log>>

\* The user flips the auto-refresh checkbox: a script run without a scan request.
ToggleAutoRefresh ==
    /\ pc = "idle"
    /\ HorizonOK
    /\ SidebarAndAutoRefresh(~auto_refresh, notification_enabled)

\* The user flips the Telegram checkbox.
ToggleNotification ==
    /\ pc = "idle"
    /\ HorizonOK
    /\ SidebarAndAutoRefresh(auto_refresh, ~notification_enabled)

\* st.rerun() after the sleep of the auto-refresh block.
TimerRerun ==
    /\ pc = "idle"
    /\ auto_refresh
    /\ HorizonOK
    /\ SidebarAndAutoRefresh(auto_refresh, notification_enabled)

\* After a manual scan the same script run goes on to the sidebar.
AfterManualScan ==
    /\ pc = "sidebar"
    /\ SidebarAndAutoRefresh(auto_refresh, notification_enabled)

\* One iteration of the scan_crossovers loop on the fetch f.  The fetch takes
\* time: the clock read for the event's timestamp is later than every
\* earlier read.
ScanInstrumentWith(f) ==
    /\ pc \in {"scan_4h", "scan_1d"}
    /\ idx < total_stocks
    /\ clock' = clock + 1
    /\ prev_signal' = IF IsSkipped(f) THEN prev_signal ELSE PrevSignal(f)
    /\ current_signal' = IF IsSkipped(f) THEN current_signal ELSE CurrentSignal(f)
    /\ IF pc = "scan_4h"
       THEN /\ crossovers_4h' =
                  crossovers_4h \o ScanSymbol(STOCK_SYMBOLS[idx + 1], "4h", f, clock + 1)
            /\ UNCHANGED crossovers_1d
       ELSE /\ crossovers_1d' =
                  crossovers_1d \o ScanSymbol(STOCK_SYMBOLS[idx + 1], "1d", f, clock + 1)
            /\ UNCHANGED crossovers_4h
    /\ visits' = [visits EXCEPT ![IF pc = "scan_4h" THEN "4h" ELSE "1d"][idx + 1] = @ + 1]
    /\ skipped' = IF IsSkipped(f)
                  THEN skipped \cup {<<IF pc = "scan_4h" THEN "4h" ELSE "1d",
                                       StripNS(STOCK_SYMBOLS[idx + 1])>>}
                  ELSE skipped
    /\ IF NextIdx(idx, f) < total_stocks
       THEN idx' = NextIdx(idx, f) /\ UNCHANGED pc
       ELSE idx' = 0 /\ pc' = (IF pc = "scan_4h" THEN "scan_1d" ELSE "dedup")
    /\ UNCHANGED <<trigger, current_time, scans, new_alerts_4h, new_alerts_1d,
                   scan_report, session, credentials, calc, auto_starts, send_log>>

\* The loop iteration in a session.
ScanInstrument == \E f \in SessionFetches : ScanInstrumentWith(f)

\* The loop iteration on any series of the grid.
ScanInstrumentGrid == \E f \in Fetches : ScanInstrumentWith(f)

\* Where the script run continues when scan_stocks_now returns.
AfterScan == IF trigger = "manual" THEN "sidebar" ELSE "auto_return"

\* Variant: the handler shows what the scan had found so far.
ScannerError_PublishesPartial ==
    /\ pc \in {"scan_4h", "scan_1d"}
    /\ idx = 0
    /\ returned' = <<0, 0, 0>>
    /\ pc' = AfterScan
    /\ skipped' = {}
    /\ crossover_data_4h' = crossovers_4h
    /\ UNCHANGED <<clock, idx, trigger, current_time, scans, scan_locals,
                   last_scan_time, crossover_data_1d, auto_refresh, previous_alerts,
                   notification_enabled, last_telegram_sent_time,
                   credentials, calc, auto_starts, notify_branch, cooldown_remaining,
                   posted, send_log, ledger_before, visits, writes>>

\* An exception outside the per-instrument try (the progress widgets at the
\* head of scan_crossovers) reaches the handler of scan_stocks_now.
ScannerError ==
    /\ pc \in {"scan_4h", "scan_1d"}
    /\ idx = 0
    /\ returned' = <<0, 0, 0>>
    /\ pc' = AfterScan
    /\ skipped' = {}
    /\ UNCHANGED <<clock, idx, trigger, current_time, scans, scan_locals, session,
                   credentials, calc, auto_starts, notify_branch, cooldown_remaining, posted,
                   send_log, ledger_before, visits, writes>>

\* The rest of scan_stocks_now after both timeframe scans: new alerts,
\* notification, session state, return value.
FinishScan ==
    /\ pc = "dedup"
    /\ \E answer \in NotifierAnswers :
         LET current_alerts_4h == AlertKeys(crossovers_4h)
             current_alerts_1d == AlertKeys(crossovers_1d)
             n4 == FilterNew(crossovers_4h, previous_alerts)
             n1 == FilterNew(crossovers_1d, previous_alerts)
             all_new_alerts == n4 \o n1
             now == clock
             time_since_last_telegram == now - last_telegram_sent_time
             sent == send_telegram_alerts(n4, n1, answer)
         IN /\ new_alerts_4h' = n4
            /\ new_alerts_1d' = n1
            /\ IF ShouldNotify(all_new_alerts, notification_enabled)
               THEN IF CooldownOver(time_since_last_telegram)
                    THEN /\ posted' = sent.posts
                         /\ last_telegram_sent_time' =
                               ThrottleAfterSend(sent.ret, now, last_telegram_sent_time)
                         /\ notify_branch' = IF SendSucceeded(sent.ret) THEN "sent" ELSE "failed"
                         /\ cooldown_remaining' = 0
                         /\ writes' = [ledger |-> writes.ledger + 1,
                                       throttle |-> writes.throttle
                                                    + (IF SendSucceeded(sent.ret) THEN 1 ELSE 0)]
                         /\ send_log' = IF sent.posts # <<>> /\ answer = "200"
                                        THEN Append(send_log, now) ELSE send_log
                    ELSE /\ posted' = <<>>
                         /\ notify_branch' = "cooldown"
                         /\ cooldown_remaining' = Cooldown - time_since_last_telegram
                         /\ writes' = [writes EXCEPT !.ledger = @ + 1]
                         /\ UNCHANGED <<last_telegram_sent_time, send_log>>
               ELSE /\ posted' = <<>>
                    /\ notify_branch' = IF all_new_alerts # <<>> THEN "disabled" ELSE "none"
                    /\ cooldown_remaining' = 0
                    /\ writes' = [writes EXCEPT !.ledger = @ + 1]
                    /\ UNCHANGED <<last_telegram_sent_time, send_log>>
            /\ crossover_data_4h' = crossovers_4h
            /\ crossover_data_1d' = crossovers_1d
            /\ previous_alerts' =
                  NextLedger(previous_alerts, current_alerts_4h, current_alerts_1d)
            /\ last_scan_time' = clock
            /\ returned' = <<Len(crossovers_4h), Len(crossovers_1d), Len(all_new_alerts)>>
    /\ ledger_before' = previous_alerts
    /\ pc' = AfterScan
    /\ skipped' = {}
    /\ UNCHANGED <<clock, idx, trigger, current_time, scans, prev_signal,
                   current_signal, crossovers_4h, crossovers_1d, auto_refresh,
                   notification_enabled, credentials, calc, auto_starts, visits>>

\* main() after an auto-refresh scan: last_scan_time = current_time, then
\* sleep and rerun.
AutoScanReturn ==
    /\ pc = "auto_return"
    /\ last_scan_time' = current_time
    /\ EndRun
    /\ UNCHANGED <<clock, scans, crossover_data_4h, crossover_data_1d, auto_refresh,
                   previous_alerts, notification_enabled, last_telegram_sent_time,
                   credentials, calc, auto_starts, send_log>>

\* The session: every trigger, the user's toggles, time passing.
Next ==
    \/ Tick
    \/ ClickScanNow
    \/ ToggleAutoRefresh
    \/ ToggleNotification
    \/ TimerRerun
    \/ AfterManualScan
    \/ ScanInstrument
    \/ ScannerError
    \/ FinishScan
    \/ AutoScanReturn

Spec == Init /\ [][Next]_vars

\* The first scan of a session, asked for by the button.
FirstScan == scans = 0 /\ ClickScanNow

\* The scanner alone: the first scan of a session, on every series of the grid.
NextScan ==
    \/ FirstScan
    \/ AfterManualScan
    \/ ScanInstrumentGrid
    \/ ScannerError
    \/ FinishScan

SpecScan == Init /\ [][NextScan]_vars

\* The script run is sequential code: a scan in progress keeps running.
FairSpecScan ==
    SpecScan /\ WF_vars(ScanInstrumentGrid) /\ WF_vars(FinishScan)

\* ------------------------------------------------- the engine on its own
\* Periods calculate_ema is tried with: those of calculate_macd and small ones.
Periods == {1, 2, SignalPeriod, FastPeriod, SlowPeriod}

\* calculate_ema on every series of at most MaxLen values.
EmaCalls ==
    UNION {[fn : {"calculate_ema"}, data : [1..n -> Vals], period : Periods] :
             n \in 0..MaxLen}

\* Close prices: a flat stretch and two last prices of their own.
ClosePrices ==
    UNION {{[i \in 1..n |-> IF i = n THEN b ELSE IF i = n - 1 THEN a ELSE c] :
               <<c, a, b>> \in (1..MaxVal) \X (1..MaxVal) \X (1..MaxVal)} :
             n \in 0..MaxSeries}

MacdCalls == [fn : {"calculate_macd"}, close_prices : ClosePrices]

ClassifyCalls == [fn : {"classify"}, macd_val : Vals, signal_val : Vals]

\* Two bars to build series from.
BarShapes ==
    {[Open |-> 10, High |-> 12, Low |-> 9, Close |-> 11, Volume |-> 100],
     [Open |-> 11, High |-> 13, Low |-> 8, Close |-> 12, Volume |-> 200]}

\* A bar of the given shape at the given hour.
BarAt(hour, shape) ==
    [hour |-> hour, Open |-> shape.Open, High |-> shape.High, Low |-> shape.Low,
     Close |-> shape.Close, Volume |-> shape.Volume]

\* The provider's bars: at most MaxHourly bars in time order.
BarSeries ==
    UNION {{[i \in 1..n |-> BarAt(h[i], sh[i])] :
               <<h, sh>> \in {hh \in [1..n -> 0..MaxHour] :
                                 \A i \in 1..(n - 1) : hh[i] < hh[i + 1]}
                             \X [1..n -> BarShapes]} :
             n \in 0..MaxHourly}

ResampleCalls == [fn : {"history"}, timeframe : Timeframes, bars : BarSeries]

\* One function of the engine is called with arguments of the bounded sets.
InitCalc ==
    /\ SessionInit
    /\ result = [done |-> FALSE]
    /\ \/ call \in EmaCalls
       \/ call \in MacdCalls
       \/ call \in ClassifyCalls
       \/ call \in ResampleCalls

\* The call returns v.
Return(v) ==
    /\ ~result.done
    /\ result' = [done |-> TRUE, value |-> v]
    /\ UNCHANGED <<call, scanner>>

CalculateEma ==
    /\ call.fn = "calculate_ema"
    /\ Return(calculate_ema(Wholes(call.data), call.period))

CalculateMacd ==
    /\ call.fn = "calculate_macd"
    /\ Return(calculate_macd(Wholes(call.close_prices)))

\* The label of one bar, lines 164-177.
ClassifyBar ==
    /\ call.fn = "classify"
    /\ Return(Classify(call.macd_val, call.signal_val))

\* Lines 203-215 of scan_crossovers.
FetchHistory ==
    /\ call.fn = "history"
    /\ Return(History(call.timeframe, call.bars))

NextCalc ==
    \/ CalculateEma
    \/ CalculateMacd
    \/ ClassifyBar
    \/ FetchHistory

\* ---- the auto-refresh loop
\* A minute passes in a session that stays open: the script sleeps at most 5
\* seconds before st.rerun(), so a minute cannot pass over a scan that is due.
TimerTick ==
    /\ pc = "idle"
    /\ clock < MaxClock
    /\ ~(auto_refresh /\ ScanDue(clock - last_scan_time))
    /\ clock' = clock + 1
    /\ UNCHANGED <<pc, idx, trigger, current_time, scans, scan_locals, scan_report,
                   session, credentials, calc, auto_starts, send_log, visits, skipped>>

\* A series without a crossover (SELL stays SELL).
QuietFetch ==
    [raises |-> FALSE, n |-> MinBars, macd_prev |-> 0 - 1, signal_prev |-> 0,
     macd_curr |-> 0 - 1]

\* The loop iteration when nothing crosses.
ScanInstrumentQuiet == ScanInstrumentWith(QuietFetch)

\* The session seen minute by minute.
NextTimer ==
    \/ TimerTick
    \/ ClickScanNow
    \/ ToggleAutoRefresh
    \/ TimerRerun
    \/ AfterManualScan
    \/ ScanInstrumentQuiet
    \/ ScannerError
    \/ FinishScan
    \/ AutoScanReturn

SpecTimer == Init /\ [][NextTimer]_vars

\* The script run is sequential code and the open session keeps rerunning it.
FairSpecTimer ==
    /\ SpecTimer
    /\ WF_vars(TimerTick)
    /\ WF_vars(TimerRerun)
    /\ WF_vars(AfterManualScan)
    /\ WF_vars(ScanInstrumentQuiet)
    /\ WF_vars(FinishScan)
    /\ WF_vars(AutoScanReturn)

SpecCalc == InitCalc /\ [][NextCalc]_vars

\* ------------------------------------------------------------ properties
Range(seq) == {seq[i] : i \in 1..Len(seq)}

Symbols(seq) == {seq[i].symbol : i \in 1..Len(seq)}

KeysOf(seq) == {<<seq[i].symbol, seq[i].timestamp>> : i \in 1..Len(seq)}

IsPrefix(a, b) == Len(a) <= Len(b) /\ SubSeq(b, 1, Len(a)) = a

Scanning == pc \in {"scan_4h", "scan_1d"}

\* A step that is one iteration of the scan_crossovers loop.
LoopStep == Scanning /\ clock' # clock

\* A step that completes a scan cycle.
FinishStep == pc = "dedup" /\ pc' # "dedup"

\* The script run is just past a completed scan.
ScanDone == pc \in {"sidebar", "auto_return"} /\ returned # <<>> /\ visits[ "1d" ][1] = 1

KeyNotIn(ledger, c) == <<c.symbol, c.timestamp>> \notin ledger

\* The events of a list whose key is not in the ledger, in order.
NotInLedger(seq, ledger) == SelectSeq(seq, LAMBDA c : KeyNotIn(ledger, c))

\* C1: a loop iteration that gets as far as the labels appends an event
\* exactly when the second-to-last label is SELL, WEAK SELL or STRONG SELL
\* and the last label is BUY, WEAK BUY or STRONG BUY; it appends exactly one
\* event then, and none for any other pair of labels, NO SIGNAL included.
C1_CrossoverIff ==
    [][(LoopStep /\ skipped' = skipped) =>
         LET crossing == /\ prev_signal' \in {"SELL", "WEAK SELL", "STRONG SELL"}
                         /\ current_signal' \in {"BUY", "WEAK BUY", "STRONG BUY"}
             before == Len(crossovers_4h) + Len(crossovers_1d)
             after == Len(crossovers_4h') + Len(crossovers_1d')
         IN /\ crossing => after = before + 1
            /\ ~crossing => after = before]_vars

\* C1 witness: the first 4h iteration went from STRONG SELL to WEAK BUY and
\* appended an event.
C1_Witness ==
    /\ pc = "scan_4h" /\ idx = 1 /\ Len(crossovers_4h) = 1
    /\ prev_signal = "STRONG SELL" /\ current_signal = "WEAK BUY"

\* C2: when a scan cycle completes, the new events of each timeframe are
\* exactly the events of this scan whose key is not in the ledger the
\* previous completed scan left, in scan order, and the returned count of
\* new events is their number.
C2_NewAreNotInLedger ==
    [][FinishStep =>
         /\ new_alerts_4h' = NotInLedger(crossovers_4h, previous_alerts)
         /\ new_alerts_1d' = NotInLedger(crossovers_1d, previous_alerts)
         /\ returned'[3] = Len(NotInLedger(crossovers_4h, previous_alerts))
                           + Len(NotInLedger(crossovers_1d, previous_alerts))]_vars

\* C2 witness: a scan that met a non-empty ledger treated events as new.
C2_Witness ==
    ScanDone /\ ledger_before # {} /\ new_alerts_4h # <<>> /\ new_alerts_1d # <<>>

\* C3 (as claimed): an instrument whose crossover on a timeframe was in the
\* previous completed scan and is in this scan again is not among this
\* scan's new events.
C3_AlertsOnce ==
    [][FinishStep =>
         /\ \A c \in Range(new_alerts_4h') : c.symbol \notin Symbols(crossover_data_4h)
         /\ \A c \in Range(new_alerts_1d') : c.symbol \notin Symbols(crossover_data_1d)]_vars

\* C4: when a scan cycle completes, whichever way its notification step
\* went, the ledger becomes exactly the keys of this scan's 4h and 1d
\* events; a key of the old ledger that is not a key of this scan is gone.
C4_LedgerReplaced ==
    [][FinishStep =>
         /\ previous_alerts' = KeysOf(crossovers_4h) \cup KeysOf(crossovers_1d)
         /\ \A k \in previous_alerts :
               k \notin KeysOf(crossovers_4h \o crossovers_1d) => k \notin previous_alerts'
         /\ notify_branch' \in {"none", "disabled", "cooldown", "failed", "sent"}]_vars

\* C4 witness: a scan whose send was suppressed replaced a non-empty ledger
\* by its own keys and dropped the old ones.
C4_Witness ==
    /\ ScanDone
    /\ notify_branch = "cooldown"
    /\ ledger_before # {}
    /\ previous_alerts # {}
    /\ ledger_before \cap previous_alerts = {}

\* C5: in a scan with a new event and notifications switched on, the send is
\* attempted exactly when at least 45 minutes have passed since
\* last_telegram_sent_time (with credentials present: a request goes out
\* exactly then); otherwise the remaining cooldown is shown.
C5_SendIffCooldownOver ==
    [][(FinishStep /\ new_alerts_4h' \o new_alerts_1d' # <<>> /\ notification_enabled) =>
         LET elapsed == clock - last_telegram_sent_time
         IN /\ notify_branch' \in {"sent", "failed"} <=> elapsed >= 45
            /\ credentials => (posted' # <<>> <=> elapsed >= 45)
            /\ elapsed < 45 => /\ notify_branch' = "cooldown"
                               /\ cooldown_remaining' = 45 - elapsed
                               /\ posted' = <<>>]_vars

\* C5 witness: a scan 44 minutes after the last send was suppressed.
C5_Witness ==
    /\ ScanDone
    /\ credentials
    /\ notify_branch = "cooldown"
    /\ cooldown_remaining = 1
    /\ clock - last_telegram_sent_time = 44

\* C6: last_telegram_sent_time changes only in a step in which Telegram
\* answered 200, and becomes the clock read before the dispatch; in every
\* other step (failed, suppressed, not attempted) it keeps its value.
C6_ThrottleOnlyOnSuccess ==
    [][/\ send_log' # send_log =>
            /\ FinishStep
            /\ last_telegram_sent_time' = clock
            /\ send_log' = Append(send_log, clock)
       /\ send_log' = send_log => last_telegram_sent_time' = last_telegram_sent_time]_vars

\* C6 witness: a request went out, failed, and the throttle still holds its
\* initial value.
C6_Witness ==
    /\ ScanDone
    /\ notify_branch = "failed"
    /\ posted # <<>>
    /\ send_log = <<>>
    /\ last_telegram_sent_time = 0 - 46

\* The notification sub-state READY.
Ready == clock - last_telegram_sent_time >= Cooldown

\* C7: any two successful sends are at least 45 minutes apart; READY is left
\* only by a successful send and entered again only when 45 minutes have
\* passed since that send.
C7_SendsApart ==
    /\ [](\A i \in DOMAIN send_log : \A j \in DOMAIN send_log :
            i < j => send_log[j] - send_log[i] >= 45)
    /\ [][(Ready /\ ~Ready') => send_log' # send_log]_vars
    /\ [][(~Ready /\ Ready') =>
            /\ send_log # <<>>
            /\ clock' - send_log[Len(send_log)] >= 45]_vars

\* C7 witness: two sends succeeded in one session.
C7_Witness == Len(send_log) = 2

\* C8: an iteration that skips its instrument (error, empty or short series)
\* appends nothing and the loop goes on; an iteration never changes the
\* events appended before it and appends only for its own symbol; no symbol
\* is visited twice, every symbol has been visited once when a timeframe
\* scan is over, and a scan in progress ends.
C8_SkipAndContinue ==
    /\ [][LoopStep =>
            /\ skipped' # skipped =>
                  /\ crossovers_4h' = crossovers_4h
                  /\ crossovers_1d' = crossovers_1d
                  /\ pc' \in {"scan_4h", "scan_1d", "dedup"}
            /\ IsPrefix(crossovers_4h, crossovers_4h')
            /\ IsPrefix(crossovers_1d, crossovers_1d')
            /\ Symbols(crossovers_4h' \o crossovers_1d')
                  \subseteq Symbols(crossovers_4h \o crossovers_1d)
                            \cup {StripNS(STOCK_SYMBOLS[idx + 1])}]_vars
    /\ [](/\ \A tf \in {"4h", "1d"} : \A i \in 1..Len(STOCK_SYMBOLS) : visits[tf][i] <= 1
          /\ pc \in {"scan_1d", "dedup"} =>
                \A i \in 1..Len(STOCK_SYMBOLS) : visits["4h"][i] = 1
          /\ pc = "dedup" => \A i \in 1..Len(STOCK_SYMBOLS) : visits["1d"][i] = 1
          /\ \A s \in skipped :
                s[2] \notin Symbols(IF s[1] = "4h" THEN crossovers_4h ELSE crossovers_1d))
    /\ (Scanning ~> ~Scanning)

\* C8 witness: the first 4h instrument was skipped and the second one gave an
\* event, and the 1d scan ran to its end.
C8_Witness ==
    /\ pc = "dedup"
    /\ <<"4h", "A">> \in skipped
    /\ Symbols(crossovers_4h) = {"B"}

\* C9: without credentials no request ever goes out and
\* last_telegram_sent_time never changes, while a completed scan still
\* publishes its event lists, its ledger and its counts as computed from the
\* scan's events and the previous ledger alone.
C9_NoCredentials ==
    [][~credentials =>
         /\ posted' = <<>>
         /\ send_log' = send_log
         /\ last_telegram_sent_time' = last_telegram_sent_time
         /\ FinishStep =>
               /\ crossover_data_4h' = crossovers_4h
               /\ crossover_data_1d' = crossovers_1d
               /\ previous_alerts' = KeysOf(crossovers_4h \o crossovers_1d)
               /\ returned' = <<Len(crossovers_4h), Len(crossovers_1d),
                                Len(NotInLedger(crossovers_4h \o crossovers_1d,
                                                previous_alerts))>>]_vars

\* C9 witness: a scan without credentials was due to send, sent nothing, and
\* reported its events.
C9_Witness ==
    /\ ScanDone
    /\ ~credentials
    /\ notify_branch = "failed"
    /\ returned[3] > 0
    /\ previous_alerts # {}
    /\ crossover_data_4h = crossovers_4h

\* C10: with the Telegram checkbox off a completing scan sends no request
\* and leaves last_telegram_sent_time alone, ends in the disabled branch when
\* it has new events, and still publishes its event lists and its ledger.
C10_ToggleOff ==
    [][(FinishStep /\ ~notification_enabled) =>
         /\ posted' = <<>>
         /\ send_log' = send_log
         /\ last_telegram_sent_time' = last_telegram_sent_time
         /\ new_alerts_4h' \o new_alerts_1d' # <<>> => notify_branch' = "disabled"
         /\ crossover_data_4h' = crossovers_4h
         /\ crossover_data_1d' = crossovers_1d
         /\ previous_alerts' = KeysOf(crossovers_4h) \cup KeysOf(crossovers_1d)]_vars

\* C10 witness: a scan with credentials and the cooldown over found new
\* events and, the checkbox being off, did not send.
C10_Witness ==
    /\ ScanDone
    /\ credentials
    /\ ~notification_enabled
    /\ notify_branch = "disabled"
    /\ returned[3] = 2
    /\ clock - last_telegram_sent_time >= 45
    /\ previous_alerts # {}

\* The symbols a message lists under the header of a timeframe, in order.
ListedUnder(text, header) ==
    LET at == {i \in DOMAIN text : text[i] = <<"header", header>>}
    IN IF at = {} THEN <<>>
       ELSE LET i == CHOOSE k \in at : TRUE
                n == CHOOSE m \in 0..(Len(text) - i) :
                        /\ \A k \in 1..m : text[i + k][1] = "bullet"
                        /\ (i + m + 1 > Len(text) \/ text[i + m + 1][1] # "bullet")
            IN [k \in 1..n |-> text[i + k][2]]

\* The captions of the buttons of a keyboard, row after row.
RECURSIVE ButtonTexts(_)
ButtonTexts(rows) ==
    IF rows = <<>> THEN <<>>
    ELSE [k \in 1..Len(Head(rows)) |-> Head(rows)[k].text] \o ButtonTexts(Tail(rows))

SymbolSeq(seq) == [i \in 1..Len(seq) |-> seq[i].symbol]

\* C11: a scan cycle makes at most one request to Telegram; the message of
\* that request lists under the 4H header exactly the new 4h events of this
\* scan and under the 1D header exactly its new 1d events (none whose key is
\* in the previous ledger), each header once, and the keyboard has one
\* button for every listed symbol, in the same order.
C11_OneBatch ==
    /\ [](Len(posted) <= 1)
    /\ [][(FinishStep /\ posted' # <<>>) =>
            LET n4 == SymbolSeq(NotInLedger(crossovers_4h, previous_alerts))
                n1 == SymbolSeq(NotInLedger(crossovers_1d, previous_alerts))
                p == posted'[1]
                headers == {i \in DOMAIN p.text : p.text[i][1] = "header"}
            IN /\ Len(posted') = 1
               /\ n4 \o n1 # <<>>
               /\ ListedUnder(p.text, "4H") = n4
               /\ ListedUnder(p.text, "1D") = n1
               /\ Cardinality(headers) = (IF n4 # <<>> THEN 1 ELSE 0)
                                         + (IF n1 # <<>> THEN 1 ELSE 0)
               /\ Cardinality({i \in DOMAIN p.text : p.text[i][1] = "bullet"})
                     = Len(n4) + Len(n1)
               /\ ButtonTexts(p.inline_keyboard) = n4 \o n1]_vars

\* C11 witness: a scan with two new 4h events and one new 1d event, made on
\* a non-empty ledger, sent one request.
C11_Witness ==
    /\ ScanDone
    /\ Len(posted) = 1
    /\ ledger_before # {}
    /\ Len(new_alerts_4h) = 2
    /\ Len(new_alerts_1d) = 1

\* A call of the engine has returned.
Returned(fn) == call.fn = fn /\ result.done

\* C12: calculate_macd returns no result for every series of fewer than 30
\* close prices and a result for every series of 30 or more; a result
\* carries exactly one label per close price.
C12_MacdLength ==
    Returned("calculate_macd") =>
        LET n == Len(call.close_prices)
        IN /\ n < 30 => ~result.value.ok
           /\ n >= 30 => /\ result.value.ok
                         /\ Len(result.value.signals) = n

\* C12 witness: a series of exactly 30 prices got a result whose labels are
\* not all the same.
C12_Witness ==
    /\ Returned("calculate_macd")
    /\ Len(call.close_prices) = 30
    /\ result.value.ok
    /\ result.value.signals[29] # result.value.signals[30]

\* The precedence table of the classifier.
RuleHolds(i, m, s) ==
    CASE i = 1 -> m > s /\ m > 0 /\ s > 0
      [] i = 2 -> m < s /\ m < 0 /\ s < 0
      [] i = 3 -> m > s /\ m < 0
      [] i = 4 -> m < s /\ m > 0
      [] i = 5 -> m > s
      [] i = 6 -> m < s
      [] i = 7 -> m = s

RuleLabel ==
    <<"STRONG BUY", "STRONG SELL", "WEAK BUY", "WEAK SELL", "BUY", "SELL", "NO SIGNAL">>

\* The rules that hold with no earlier rule holding.
FirstMatches(m, s) ==
    {i \in 1..7 : RuleHolds(i, m, s) /\ \A j \in 1..(i - 1) : ~RuleHolds(j, m, s)}

\* C13: for every pair (m, s) the classifier gives one of the seven labels,
\* the label of the first rule of the precedence table that holds, and
\* exactly one rule is that first rule.
C13_ClassifyTable ==
    Returned("classify") =>
        LET m == call.macd_val
            s == call.signal_val
        IN /\ result.value \in {RuleLabel[i] : i \in 1..7}
           /\ Cardinality(FirstMatches(m, s)) = 1
           /\ \A i \in FirstMatches(m, s) : result.value = RuleLabel[i]

\* C13 witness: m > s with both negative is WEAK BUY, by rule 3.
C13_Witness ==
    /\ Returned("classify")
    /\ call.macd_val = 0 - 1
    /\ call.signal_val = 0 - 2
    /\ result.value = "WEAK BUY"

\* C14 (as claimed): for m = -2 and s = -1 the label is WEAK SELL.
C14_WeakSell ==
    (Returned("classify") /\ call.macd_val = 0 - 2 /\ call.signal_val = 0 - 1)
        => result.value = "WEAK SELL"

\* C14 (amended): for m = -2 and s = -1 (m < s, both negative) the second
\* rule holds and the label is STRONG SELL.
C14_StrongSell ==
    (Returned("classify") /\ call.macd_val = 0 - 2 /\ call.signal_val = 0 - 1)
        => /\ result.value = "STRONG SELL"
           /\ FirstMatches(0 - 2, 0 - 1) = {2}

\* C14 witness: the pair (-2, -1) has been classified.
C14_Witness ==
    /\ Returned("classify")
    /\ call.macd_val = 0 - 2
    /\ call.signal_val = 0 - 1
    /\ result.value \in {RuleLabel[i] : i \in 1..7}

\* C15: calculate_ema returns the empty series for the empty series; for any
\* other series and any period its output is as long as its input and
\* starts with the first input value, so a series of one value comes back
\* as it is.
C15_EmaSeed ==
    Returned("calculate_ema") =>
        LET data == call.data
        IN /\ Len(data) = 0 => result.value = <<>>
           /\ Len(data) > 0 => /\ Len(result.value) = Len(data)
                               /\ result.value[1] = <<data[1], 1>>
           /\ Len(data) = 1 => result.value = << <<data[1], 1>> >>

\* C15 witness: three values with period 26; the output starts with the
\* first value and moves on from it.
C15_Witness ==
    /\ Returned("calculate_ema")
    /\ call.period = 26
    /\ call.data = <<0 - 2, 1, 1>>
    /\ result.value[1] = <<0 - 2, 1>>
    /\ result.value[2] # result.value[1]

\* The bars of a series that fall in the bucket starting at the given hour.
IndexesIn(bars, start) == {i \in DOMAIN bars : (bars[i].hour \div 4) * 4 = start}

RECURSIVE SetSum(_, _)
SetSum(S, f) ==
    IF S = {} THEN 0
    ELSE LET x == CHOOSE y \in S : TRUE IN f[x] + SetSum(S \ {x}, f)

\* C16: for '4h' the hourly bars of one 4-hour bucket become one bar with the
\* first open, the highest high, the lowest low, the last close and the sum
\* of the volumes; a bucket without bars gives no bar; opens [10,11], highs
\* [12,13], lows [9,8], closes [11,12], volumes [100,200] in one bucket give
\* 10, 13, 8, 12, 300.  For '1d' the bars are used as they are.
C16_Aggregation ==
    Returned("history") =>
        LET bars == call.bars
            out == result.value
            buckets == {bars[i].hour \div 4 : i \in DOMAIN bars}
        IN /\ call.timeframe = "1d" => out = bars
           /\ call.timeframe = "4h" =>
                 /\ Len(out) = Cardinality(buckets)
                 /\ \A j \in 1..(Len(out) - 1) : out[j].hour < out[j + 1].hour
                 /\ \A j \in DOMAIN out :
                       LET I == IndexesIn(bars, out[j].hour)
                       IN /\ I # {}
                          /\ out[j].Open = bars[MinOf(I)].Open
                          /\ out[j].High = MaxOf({bars[i].High : i \in I})
                          /\ out[j].Low = MinOf({bars[i].Low : i \in I})
                          /\ out[j].Close = bars[MaxOf(I)].Close
                          /\ out[j].Volume = SetSum(I, [i \in I |-> bars[i].Volume])
                 /\ (/\ Len(bars) = 2
                     /\ bars[1].hour \div 4 = bars[2].hour \div 4
                     /\ bars[1].Open = 10 /\ bars[2].Open = 11)
                      => /\ Len(out) = 1
                         /\ out[1].Open = 10 /\ out[1].High = 13 /\ out[1].Low = 8
                         /\ out[1].Close = 12 /\ out[1].Volume = 300

\* C16 witness: two hourly bars of the bucket 4..7 and a bar at hour 9, the
\* third bucket; the two became one bar of volume 300.
C16_Witness ==
    /\ Returned("history")
    /\ call.timeframe = "4h"
    /\ Len(call.bars) = 3
    /\ call.bars[1].hour = 5 /\ call.bars[1].Open = 10
    /\ call.bars[2].hour = 6 /\ call.bars[2].Open = 11
    /\ call.bars[3].hour = 9
    /\ Len(result.value) = 2
    /\ result.value[1].Volume = 300 /\ result.value[1].Close = 12

\* Both timeframe scans have visited every instrument.
BothScanned ==
    \A tf \in Timeframes : \A i \in 1..Len(STOCK_SYMBOLS) : visits[tf][i] = 1

\* C17 (as claimed): a completed scan cycle has written the ledger exactly
\* once and the throttle state exactly once.
C17_EachWrittenOnce ==
    ScanDone => writes.ledger = 1 /\ writes.throttle = 1

\* C17 (amended): a completed scan cycle has written the ledger exactly once
\* and the throttle state at most once, exactly when a request of this scan
\* was answered 200; both are written only in the step that ends the scan,
\* after every instrument of both timeframes was visited, and no loop
\* iteration changes either.
C17_WrittenAtEnd ==
    /\ [](ScanDone => /\ writes.ledger = 1
                      /\ writes.throttle = (IF notify_branch = "sent" THEN 1 ELSE 0))
    /\ [][FinishStep => (writes'.throttle = 1 <=> send_log' # send_log)]_vars
    /\ [][(\/ previous_alerts' # previous_alerts
           \/ last_telegram_sent_time' # last_telegram_sent_time
           \/ (writes' # writes /\ writes' # NoWrites))
            => FinishStep /\ BothScanned]_vars
    /\ [][LoopStep => /\ previous_alerts' = previous_alerts
                      /\ last_telegram_sent_time' = last_telegram_sent_time
                      /\ writes' = writes]_vars

\* C17 witness: a completed scan wrote the ledger and, its send having
\* succeeded, the throttle.
C17_Witness ==
    /\ ScanDone
    /\ writes = [ledger |-> 1, throttle |-> 1]
    /\ last_telegram_sent_time = clock
    /\ previous_alerts # {}

\* A step in which a script run reaches the auto-refresh block: it comes
\* from the idle session or from a manual scan and is not the button's scan.
RerunStep == pc \in {"idle", "sidebar"} /\ clock' = clock /\ trigger' # "manual"

\* The session is idle with auto-refresh on after n scans, and the next
\* timer scan fits into the modelled session.
AwaitingScan(n) ==
    /\ pc = "idle"
    /\ auto_refresh
    /\ scans = n
    /\ clock + 2 * total_stocks <= MaxClock
    /\ last_scan_time + ScanInterval + 2 * total_stocks <= MaxClock

\* C18: a script run that reaches the auto-refresh block starts a timer scan
\* exactly when auto-refresh is on and at least 15 minutes have passed since
\* last_scan_time; the starts of any two timer scans are at least 15 minutes
\* apart; a script run whose manual scan completed finds last_scan_time
\* reset to now and starts no timer scan; and while auto-refresh stays on,
\* a scan is followed by another scan.
C18_TimerScan ==
    /\ [][RerunStep =>
            (trigger' = "auto" <=> (auto_refresh' /\ clock - last_scan_time >= 15))]_vars
    /\ [](\A i \in DOMAIN auto_starts : \A j \in DOMAIN auto_starts :
            i < j => auto_starts[j] - auto_starts[i] >= 15)
    /\ [][(pc = "sidebar" /\ BothScanned) =>
            /\ last_scan_time = clock
            /\ trigger' # "auto"
            /\ pc' = "idle"]_vars
    /\ \A n \in 1..(MaxScans - 1) :
          AwaitingScan(n) ~> (scans > n \/ ~auto_refresh)

\* C18 witness: the second timer scan started exactly 15 minutes after the
\* first.
C18_Witness ==
    /\ Len(auto_starts) = 2
    /\ auto_starts[2] - auto_starts[1] = 15
    /\ pc = "scan_4h"

\* A step in which scan_stocks_now returns through its exception handler.
AbortStep == Scanning /\ pc' \notin {"scan_4h", "scan_1d", "dedup"}

C20_FirstScanSends ==
    /\ [](scans = 0 => /\ previous_alerts = {}
                       /\ clock - last_telegram_sent_time > 45)
    /\ [](send_log = <<>> => clock - last_telegram_sent_time > 45)
    /\ []((scans = 1 /\ pc = "dedup") => previous_alerts = {} /\ send_log = <<>>)
    /\ [][(/\ FinishStep
           /\ previous_alerts = {}
           /\ send_log = <<>>
           /\ crossovers_4h \o crossovers_1d # <<>>
           /\ notification_enabled)
            => /\ new_alerts_4h' = crossovers_4h
               /\ new_alerts_1d' = crossovers_1d
               /\ returned'[3] = Len(crossovers_4h) + Len(crossovers_1d)
               /\ notify_branch' \in {"sent", "failed"}
               /\ credentials => Len(posted') = 1]_vars

\* C20 witness: the first scan of a session, started right away, found three
\* events and its send succeeded.
C20_Witness ==
    /\ ScanDone
    /\ scans = 1
    /\ clock = 2 * total_stocks
    /\ ledger_before = {}
    /\ returned = <<2, 1, 3>>
    /\ notify_branch = "sent"
    /\ send_log = <<clock>>

====
